---------------------------- MODULE Spec2Model ----------------------------
(***************************************************************************)
(* Model of the senseye transfer-statistics channel (senses/rwstat.c):     *)
(* the raw ingest window with block / sliding clocking, the 256-bucket     *)
(* histogram, entropy- and pattern-driven alpha generation, the frame step *)
(* and the resize / mode-switch operations of struct rwstat_ch_priv.       *)
(*                                                                         *)
(* Arrays are 0-based in the source and 1-based sequences here: C index k  *)
(* is sequence index k+1.  The output raster (cont->vidp), the scale       *)
(* factors sf_x / sf_y that only feed it, and the float payload of the     *)
(* frame-status event belong to the shared-memory sink and are not part of *)
(* the state modelled here.                                                *)
(***************************************************************************)
EXTENDS Integers, Sequences, FiniteSets, TLC

(* ------------------------------ bounds -------------------------------- *)
\* byte values fed to the channel are 0..MaxByte
MaxByte == 1
\* longest chunk handed to one ch_data call
MaxChunk == 3
\* window sides (c->addr->w, resize) are 1..MaxSide
MaxSide == 2
\* number of channel operations in one run
MaxOps == 3
\* number of registered patterns
MaxPatterns == 2

(* --------------------------- enum values ------------------------------ *)
RW_CLK_BLOCK == 0
RW_CLK_SLIDE == 1

PACK_TIGHT == 0
PACK_TNOALPHA == 1
PACK_INTENS == 2
PACK_HINTENS == 3

MAP_WRAP == 0
MAP_TUPLE == 1
MAP_HILBERT == 2

RW_ALPHA_FULL == 0
RW_ALPHA_PTN == 1
RW_ALPHA_ENTBASE == 2

FLAG_STATE == "FLAG_STATE"
FLAG_EVENT == "FLAG_EVENT"

Byte == 0 .. MaxByte
Clocks == {RW_CLK_BLOCK, RW_CLK_SLIDE}
Packs == {PACK_TIGHT, PACK_TNOALPHA, PACK_INTENS, PACK_HINTENS}
Maps == {MAP_WRAP, MAP_TUPLE, MAP_HILBERT}
Alphas == {RW_ALPHA_FULL, RW_ALPHA_PTN, RW_ALPHA_ENTBASE}
Sides == 1 .. MaxSide

\* match order for enum rwstat_pack
pack_sizes == <<4, 3, 1, 1>>

(* ----------------------------- helpers -------------------------------- *)
Min(a, b) == IF a < b THEN a ELSE b

Fill(n, v) == [k \in 1 .. n |-> v]

Count(s, b) == Cardinality({k \in DOMAIN s : s[k] = b})

RECURSIVE SumTo(_, _)
\* sum of f[0] .. f[n]
SumTo(f, n) == IF n < 0 THEN 0 ELSE f[n] + SumTo(f, n - 1)

SeqsUpTo(S, n) == UNION {[1 .. k -> S] : k \in 0 .. n}

(* --------------------------- hilbert curve ---------------------------- *)
\* hilbert_rot reflecting about n instead of n - 1
hilbert_rot_OffByOne(n, xy, rx, ry) ==
    IF ry = 0
    THEN LET r == IF rx = 1 THEN <<n - xy[1], n - xy[2]>> ELSE xy
         IN  <<r[2], r[1]>>
    ELSE xy

\* hilbert_rot on the pair xy = <<x, y>>
hilbert_rot(n, xy, rx, ry) ==
    IF ry = 0
    THEN LET r == IF rx = 1 THEN <<n - 1 - xy[1], n - 1 - xy[2]>> ELSE xy
         IN  <<r[2], r[1]>>
    ELSE xy

RECURSIVE hilbert_loop(_, _, _, _)
hilbert_loop(n, s, t, xy) ==
    IF s < n
    THEN LET rx == (t \div 2) % 2
             ry == ((t % 2) + rx) % 2
             r  == hilbert_rot(s, xy, rx, ry)
         IN  hilbert_loop(n, s * 2, t \div 4, <<r[1] + s * rx, r[2] + s * ry>>)
    ELSE xy

hilbert_d2xy(n, d) == hilbert_loop(n, 1, d, <<0, 0>>)

\* the uint16_t LUT of ch_map: cmap[2*i] = x, cmap[2*i + 1] = y
BuildCmap(base) ==
    [k \in 1 .. 2 * base * base |->
        hilbert_d2xy(base, (k - 1) \div 2)[((k - 1) % 2) + 1] % 65536]

(* ------------------------ histogram / entropy ------------------------- *)
\* floor(4096 * log2(k)) for k = 1 .. 64, standing for log2f
LOG2 ==
    <<0, 4096, 6492, 8192, 9510, 10588, 11498, 12288,
      12984, 13606, 14169, 14684, 15157, 15594, 16002, 16384,
      16742, 17080, 17399, 17702, 17990, 18265, 18528, 18780,
      19021, 19253, 19476, 19690, 19898, 20098, 20292, 20480,
      20661, 20838, 21009, 21176, 21337, 21495, 21649, 21798,
      21944, 22086, 22225, 22361, 22494, 22624, 22751, 22876,
      22997, 23117, 23234, 23349, 23461, 23572, 23680, 23786,
      23891, 23994, 24095, 24194, 24292, 24388, 24482, 24576>>

\* shent: entropy of a block with its own histogram, in units of 1/4096 bit.
\* The sum runs over the positions of the block, so a byte value occurring
\* c times contributes c * (c/n) * log2(n/c).
shent(blk) ==
    LET n == Len(blk)
        term == [b \in Byte |->
                   LET c == Count(blk, b)
                   IN  IF c = 0 THEN 0 ELSE c * c * (LOG2[n] - LOG2[c])]
    IN  IF n = 0 THEN 0 ELSE SumTo(term, MaxByte) \div n

\* (uint8_t)(255.0f * (shent(..) / 8.0f)) before the conversion to 8 bits
EntScaled(blk) == (255 * shent(blk)) \div 32768

\* The conversion of a float above 255 to uint8_t is undefined: builds either
\* truncate the integer value to 8 bits or saturate.
ToU8(v, conv) == IF v <= 255 THEN v ELSE IF conv = "wrap" THEN v % 256 ELSE 255

rebuild_hgram(hgram, buf) == [b \in Byte |-> hgram[b] + Count(buf, b)]

\* hnorm over the buckets the table has (256 in the source)
hnorm(hgram) ==
    LET acc == SumTo(hgram, Cardinality(DOMAIN hgram) - 1)
    IN  IF acc > 0
        THEN [b \in DOMAIN hgram |-> ((255 * hgram[b]) \div acc) % 256]
        ELSE hgram

(* -------------------------- alpha generation -------------------------- *)
\* memset(&alpha[start], val, len) on an alpha buffer; start may lie before
\* the buffer and start + len beyond it, only the cells inside are modelled
MemsetAlpha(alpha, start, val, len) ==
    [k \in DOMAIN alpha |->
        IF start <= k - 1 /\ k - 1 < start + len THEN val ELSE alpha[k]]

\* TRUE when memset(&alpha[start], .., len) touches a cell outside the buffer
MemsetStray(alpha, start, len) ==
    len > 0 /\ (start < 0 \/ start + len > Len(alpha))

\* update_entalpha: one entropy value per block of bsz samples
update_entalpha(s, bsz, conv) ==
    LET bsqr == s.base * s.base
        blk(k) == SubSeq(s.buf, ((k - 1) \div bsz) * bsz * s.pack_sz + 1,
                                (((k - 1) \div bsz) + 1) * bsz * s.pack_sz)
    IN  [s EXCEPT
          !.alpha = [k \in 1 .. bsqr |-> ToU8(EntScaled(blk(k)), conv)],
          !.fov = s.fov \/ \E k \in 1 .. bsqr : EntScaled(blk(k)) > 255]

\* PtnComplete counting every completion, flagged emit-event or not
PtnComplete_CountAll(sc, ptn, i, j) ==
    [sc EXCEPT
       !.pos[j] = 0,
       !.alpha = MemsetAlpha(sc.alpha, i - ptn.buf_sz, ptn.alpha, ptn.buf_sz),
       !.av = IF FLAG_STATE \in ptn.flags THEN ptn.alpha ELSE sc.av,
       !.evc[j] = sc.evc[j] + 1,
       !.matches = Append(sc.matches,
                          [ptn |-> j, at |-> i, before |-> sc.alpha,
                           after |-> sc.alpha, pos |-> 0])]

\* the completion of pattern j at window position i (lines 249-254):
\* progress back to zero, the span painted, default opacity, event count
PtnComplete(sc, ptn, i, j) ==
    LET done == [sc EXCEPT
                   !.pos[j] = 0,
                   !.alpha = MemsetAlpha(sc.alpha, i - ptn.buf_sz, ptn.alpha,
                                         ptn.buf_sz),
                   !.oob = sc.oob \/ MemsetStray(sc.alpha, i - ptn.buf_sz,
                                                 ptn.buf_sz),
                   !.av = IF FLAG_STATE \in ptn.flags THEN ptn.alpha ELSE sc.av,
                   !.evc[j] = IF FLAG_EVENT \in ptn.flags THEN sc.evc[j] + 1
                              ELSE sc.evc[j]]
    IN  [done EXCEPT
           !.matches = Append(sc.matches,
                              [ptn |-> j, at |-> i, before |-> sc.alpha,
                               after |-> done.alpha, pos |-> done.pos[j]])]

\* the comparison of pattern j against window byte i (lines 246-248)
PtnAdvance(sc, ptn, byte, i, j) ==
    IF ptn.buf[sc.pos[j] + 1] = byte
    THEN IF sc.pos[j] + 1 = ptn.buf_sz
         THEN PtnComplete(sc, ptn, i, j)
         ELSE [sc EXCEPT !.pos[j] = sc.pos[j] + 1]
    ELSE sc

RECURSIVE PtnInner(_, _, _, _, _)
\* the loop over the patterns at window position i (line 245)
PtnInner(sc, patterns, byte, i, j) ==
    IF j > Len(patterns) THEN sc
    ELSE PtnInner(PtnAdvance(sc, patterns[j], byte, i, j), patterns, byte, i, j + 1)

\* chp->alpha[i] = av (line 243); the alpha buffer has base*base cells
PtnDefault(sc, i) ==
    IF i < Len(sc.alpha)
    THEN [sc EXCEPT !.alpha[i + 1] = sc.av]
    ELSE [sc EXCEPT !.oob = TRUE]

RECURSIVE PtnOuter(_, _, _, _)
\* the loop over the window positions (line 242)
PtnOuter(sc, patterns, buf, i) ==
    IF i >= Len(buf) THEN sc
    ELSE PtnOuter(PtnInner(PtnDefault(sc, i), patterns, buf[i + 1], i, 1),
                  patterns, buf, i + 1)

\* the notifications of lines 264-274, one per pattern with a nonzero count
RECURSIVE PtnEvents(_, _, _)
PtnEvents(patterns, evc, j) ==
    IF j > Len(patterns) THEN <<>>
    ELSE (IF evc[j] # 0
          THEN <<[kind |-> "CURSORINPUT", id |-> patterns[j].id, x |-> evc[j]]>>
          ELSE <<>>) \o PtnEvents(patterns, evc, j + 1)

update_ptnalpha(s) ==
    IF s.n_patterns = 0
    THEN [s EXCEPT !.alpha = Fill(s.base * s.base, 255)]
    ELSE LET n  == s.n_patterns
             sc == PtnOuter([alpha |-> s.alpha, pos |-> Fill(n, 0),
                             evc |-> Fill(n, 0), av |-> 255,
                             matches |-> <<>>, oob |-> FALSE],
                            s.patterns, s.buf, 0)
         IN  [s EXCEPT
               !.alpha = sc.alpha,
               !.patterns = [j \in 1 .. n |->
                               [s.patterns[j] EXCEPT !.buf_pos = sc.pos[j],
                                                     !.evc = 0]],
               !.ev = s.ev \o PtnEvents(s.patterns, sc.evc, 1),
               !.oob = s.oob \/ sc.oob,
               !.pass = [ran |-> TRUE, matches |-> sc.matches,
                         notes |-> PtnEvents(s.patterns, sc.evc, 1),
                         stray |-> sc.oob]]

(* ----------------------------- frame step ----------------------------- *)
NoPass == [ran |-> FALSE, matches |-> <<>>, notes |-> <<>>, stray |-> FALSE]

\* the configuration the stream-info notification reports (lines 308-310)
Cfg(s) == <<s.pack, s.map, s.pack_sz>>

\* lines 304-313: the one-shot stream-info notification
StepInfo(s) ==
    IF s.status_dirty
    THEN [s EXCEPT !.ev = Append(s.ev, [kind |-> "STREAMINFO", langid |-> Cfg(s)]),
                   !.status_dirty = FALSE]
    ELSE s

\* lines 315-319: histogram rebuild in slide mode, normalisation for hintens
StepRebuild(s) ==
    IF s.clock = RW_CLK_SLIDE
    THEN [s EXCEPT !.hgram = rebuild_hgram(s.hgram, s.buf)]
    ELSE s

StepNorm(s) ==
    IF s.pack = PACK_HINTENS THEN [s EXCEPT !.hgram = hnorm(s.hgram)] ELSE s

\* lines 320-323: the alpha policy of the frame
StepAlpha(s, conv) ==
    IF s.amode = RW_ALPHA_ENTBASE THEN update_entalpha(s, s.base, conv)
    ELSE IF s.amode = RW_ALPHA_PTN THEN update_ptnalpha(s)
    ELSE s

\* what one frame step saw and did, kept for the properties
Frame(s0, s1, s2, s3) ==
    [buf_sz |-> s0.buf_sz, base |-> s0.base, pack |-> s0.pack, map |-> s0.map,
     pack_sz |-> s0.pack_sz, clock |-> s0.clock, amode |-> s0.amode,
     cfg |-> Cfg(s0), prev_cfg |-> s0.last_cfg, info |-> s0.status_dirty,
     buf |-> s0.buf, hgram |-> s1.hgram, patterns |-> s0.patterns,
     alpha |-> s3.alpha, pass |-> s3.pass, after |-> s3.patterns]

ch_step(s, conv) ==
    LET s0 == [s EXCEPT !.pass = NoPass]
        e  == [s0 EXCEPT !.ev = Append(s0.ev, [kind |-> "FRAMESTATUS"])]
        s1 == StepRebuild(StepInfo(e))
        s2 == StepNorm(s1)
        s3 == StepAlpha(s2, conv)
    IN  [s3 EXCEPT !.frames = Append(s3.frames, Frame(s0, s1, s2, s3)),
                   !.last_cfg = Cfg(s0)]

(* ------------------------------- ingest ------------------------------- *)
\* the number of bytes one ch_data call takes (lines 352-363); in block mode
\* buf_sz - buf_ofs is a size_t difference, which wraps to a value above
\* every chunk length when the fill offset lies beyond the buffer size
DataCount(s, n) ==
    IF s.clock = RW_CLK_SLIDE
    THEN IF n < s.buf_sz THEN n ELSE s.buf_sz
    ELSE IF s.buf_ofs > s.buf_sz THEN n
         ELSE IF n < s.buf_sz - s.buf_ofs THEN n ELSE s.buf_sz - s.buf_ofs

\* DataShift that sets the fill offset but leaves the old bytes in place
DataShift_NoMove(s, n) ==
    IF s.clock = RW_CLK_SLIDE /\ n < s.buf_sz
    THEN [s EXCEPT !.buf_ofs = s.buf_sz - n]
    ELSE s

\* lines 353-357: the window shifted left by the chunk length
DataShift(s, n) ==
    IF s.clock = RW_CLK_SLIDE /\ n < s.buf_sz
    THEN [s EXCEPT !.buf_ofs = s.buf_sz - n,
                   !.buf = [k \in 1 .. s.buf_sz |->
                              IF k <= s.buf_sz - n THEN s.buf[k + n] ELSE s.buf[k]]]
    ELSE s

\* lines 367-370: histogram and window take the ntw bytes; a store at an
\* index beyond the buffer is a stray store
DataStore(s, chunk, ntw) ==
    [s EXCEPT
       !.hgram = [b \in Byte |-> s.hgram[b] + Count(SubSeq(chunk, 1, ntw), b)],
       !.buf = [k \in 1 .. s.buf_sz |->
                  IF k - 1 >= s.buf_ofs /\ k - 1 < s.buf_ofs + ntw
                  THEN chunk[k - s.buf_ofs] ELSE s.buf[k]],
       !.buf_ofs = s.buf_ofs + ntw,
       !.oob = s.oob \/ (ntw > 0 /\ s.buf_ofs + ntw > s.buf_sz)]

\* DataFlush that builds the frame without rewinding the fill offset
DataFlush_NoRewind(s, conv) ==
    IF s.buf_ofs = s.buf_sz
    THEN [s |-> ch_step(s, conv), step |-> 1]
    ELSE [s |-> s, step |-> 0]

\* lines 372-378: the frame is built when the fill offset meets the size
DataFlush(s, conv) ==
    IF s.buf_ofs = s.buf_sz
    THEN [s |-> ch_step([s EXCEPT !.buf_ofs = 0], conv), step |-> 1]
    ELSE [s |-> s, step |-> 0]

ch_data(s, chunk, conv) ==
    LET ntw == DataCount(s, Len(chunk))
        r   == DataFlush(DataStore(DataShift(s, Len(chunk)), chunk, ntw), conv)
    IN  [s |-> r.s, step |-> r.step, ret |-> ntw]

(* ------------------------ resize / mode switches ---------------------- *)
\* lines 428-435: bytes per sample for a packing under the active mapping
Footprint(pack, map) == pack_sizes[pack + 1] + (IF map = MAP_TUPLE THEN 2 ELSE 0)

\* lines 447-468: the lookup table exists for the curve mapping only
MapTable(s, map) ==
    [s EXCEPT !.map = map,
              !.cmap = IF map = MAP_HILBERT THEN BuildCmap(s.base) ELSE <<>>]

\* lines 539-548: fresh zeroed window and opaque alpha for the new side,
\* sized with the footprint in force; the fill offset is left as it is
ResizeBuffers(s, base) ==
    [s EXCEPT !.buf_sz = base * base * s.pack_sz,
              !.buf = Fill(base * base * s.pack_sz, 0),
              !.alpha = Fill(base * base, 255),
              !.base = base]

\* ch_pack whose sanity check sees only a buffer that was never sized
PackMismatch_Unsized(s) == s.buf_sz = 0

\* line 438: the sanity check of ch_pack
PackMismatch(s) == s.buf_sz # (s.base * s.base) * s.pack_sz

RECURSIVE ch_pack(_, _, _)
RECURSIVE ch_map(_, _, _)
RECURSIVE ch_resize(_, _, _)

ch_pack(s, pack, conv) ==
    LET p == [s EXCEPT !.pack = pack, !.pack_sz = Footprint(pack, s.map)]
        r == IF PackMismatch(p) THEN ch_resize(p, p.base, conv) ELSE p
    IN  [r EXCEPT !.status_dirty = TRUE]

ch_map(s, map, conv) ==
    LET m == MapTable(s, map)
        p == ch_pack(m, m.pack, conv)
    IN  ch_step([p EXCEPT !.status_dirty = TRUE], conv)

ch_resize(s, base, conv) ==
    LET r == ResizeBuffers(s, base)
    IN  ch_map(r, r.map, conv)

ch_alpha(s, amode) ==
    [s EXCEPT !.amode = amode,
              !.alpha = IF 0 = amode THEN Fill(s.base * s.base, 255) ELSE s.alpha]

ch_reclock(s, clock) == [s EXCEPT !.clock = clock]

ch_tick(s, conv) == ch_step(s, conv)

\* ch_left: buf_sz - buf_ofs in size_t.  With the fill offset beyond the
\* size the difference wraps: the value is then 2^w - n for a size_t of w
\* bits, recorded as wrapped with the distance n.
ch_left(s) ==
    IF s.buf_ofs <= s.buf_sz
    THEN [wrapped |-> FALSE, n |-> s.buf_sz - s.buf_ofs]
    ELSE [wrapped |-> TRUE, n |-> s.buf_ofs - s.buf_sz]

\* ch_pattern: the list grows by 8 slots when it is full; a failed realloc
\* (ok = FALSE) leaves the channel as it is and the call returns false
ch_pattern(s, alpha, id, fl, buf, ok) ==
    LET grow == s.n_patterns + 1 > s.patterns_sz
        new  == [buf |-> buf, buf_sz |-> Len(buf), buf_pos |-> 0, evc |-> 0,
                 alpha |-> alpha, id |-> id, flags |-> fl]
    IN  IF grow /\ ~ok
        THEN [s |-> s, ret |-> FALSE]
        ELSE [s |-> [s EXCEPT
                       !.patterns_sz = IF grow THEN s.patterns_sz + 8
                                       ELSE s.patterns_sz,
                       !.patterns = Append(s.patterns, new),
                       !.n_patterns = s.n_patterns + 1],
              ret |-> TRUE]

(* ----------------------- pattern specification text -------------------- *)
\* A token is the sequence of its characters; an entry of the argument list
\* is the sequence of tokens strtok finds in its "val" text, with opt telling
\* whether an "opt" argument of the same index exists.
HexDigit(c) ==
    CASE c = "0" -> 0 [] c = "1" -> 1 [] c = "a" -> 10 [] c = "f" -> 15
      [] OTHER -> -1

NullPtr == [obj |-> "null", ofs |-> 0]

RECURSIVE strtoul_from(_, _, _)
\* digits are taken while they are hexadecimal; k characters taken so far
strtoul_from(tok, k, acc) ==
    IF k < Len(tok) /\ HexDigit(tok[k + 1]) >= 0
    THEN strtoul_from(tok, k + 1, acc * 16 + HexDigit(tok[k + 1]))
    ELSE [val |-> acc, nptr |-> [obj |-> "work", ofs |-> k]]

\* strtoul(tv, &nptr, 16): the value of the longest hexadecimal prefix, and
\* nptr left pointing into the text just behind that prefix
strtoul(tok) == strtoul_from(tok, 0, 0)

\* the value stored in uint8_t bytev
ByteOf(tok) == strtoul(tok).val % 256

\* line 650: the test of pass 1
TokenRefused(tok) == ByteOf(tok) = 0 /\ strtoul(tok).nptr = NullPtr

\* lines 641-670: one entry gives the byte string of pass 2, or stops the
\* whole call when it has no token or pass 1 refuses one
EntryRefused(entry) ==
    \/ entry.val = <<>>
    \/ \E k \in 1 .. Len(entry.val) : TokenRefused(entry.val[k])

EntryBytes(entry) == [k \in 1 .. Len(entry.val) |-> ByteOf(entry.val[k])]

RECURSIVE addpatterns_from(_, _, _)
\* the while loop of rwstat_addpatterns from entry number ind (0-based)
addpatterns_from(s, arg, ind) ==
    IF ind >= Len(arg) THEN s
    ELSE LET entry == arg[ind + 1]
         IN  IF EntryRefused(entry) \/ ~entry.opt THEN s
             ELSE addpatterns_from(
                      ch_pattern(s, ind % 256, ind, {}, EntryBytes(entry),
                                 TRUE).s,
                      arg, ind + 1)

rwstat_addpatterns(s, arg) == addpatterns_from(s, arg, 0)

(* --------------------------- command dispatch -------------------------- *)
EVENT_TARGET == "EVENT_TARGET"
EVENT_IO == "EVENT_IO"
TARGET_COMMAND_GRAPHMODE == "TARGET_COMMAND_GRAPHMODE"
TARGET_COMMAND_EXIT == "TARGET_COMMAND_EXIT"

\* a dispatcher that looks at the selector of every event
IsGraphmode_Any(evt) == TRUE

\* line 561: only the graph-mode target command is looked at
IsGraphmode(evt) ==
    evt.category = EVENT_TARGET /\ evt.kind = TARGET_COMMAND_GRAPHMODE

\* lines 564-606: the switch over ioevs[0].iv
Dispatch(s, iv, conv) ==
    CASE iv = 0  -> [s |-> ch_reclock(s, RW_CLK_BLOCK), ret |-> TRUE]
      [] iv = 1  -> [s |-> ch_reclock(s, RW_CLK_SLIDE), ret |-> TRUE]
      [] iv = 10 -> [s |-> ch_map(s, MAP_WRAP, conv), ret |-> TRUE]
      [] iv = 11 -> [s |-> ch_map(s, MAP_TUPLE, conv), ret |-> TRUE]
      [] iv = 12 -> [s |-> ch_map(s, MAP_HILBERT, conv), ret |-> TRUE]
      [] iv = 20 -> [s |-> ch_pack(s, PACK_INTENS, conv), ret |-> TRUE]
      [] iv = 21 -> [s |-> ch_pack(s, PACK_HINTENS, conv), ret |-> TRUE]
      [] iv = 22 -> [s |-> ch_pack(s, PACK_TIGHT, conv), ret |-> TRUE]
      [] iv = 23 -> [s |-> ch_pack(s, PACK_TNOALPHA, conv), ret |-> TRUE]
      [] iv = 30 -> [s |-> ch_alpha(s, RW_ALPHA_FULL), ret |-> TRUE]
      [] iv = 31 -> [s |-> ch_alpha(s, RW_ALPHA_PTN), ret |-> TRUE]
      [] iv = 32 -> [s |-> ch_alpha(s, RW_ALPHA_ENTBASE), ret |-> TRUE]
      [] OTHER   -> [s |-> s, ret |-> FALSE]

rwstat_consume_event(s, evt, conv) ==
    IF IsGraphmode(evt) THEN Dispatch(s, evt.iv, conv)
    ELSE [s |-> s, ret |-> FALSE]

\* rwstat_addch: the zeroed channel, the constructor's modes, then the first
\* resize with the sink's width
Zeroed ==
    [clock |-> 0, pack |-> 0, map |-> 0, amode |-> 0, status_dirty |-> FALSE,
     pack_sz |-> 0, cmap |-> <<>>, patterns |-> <<>>, n_patterns |-> 0,
     patterns_sz |-> 0, buf_ofs |-> 0, hgram |-> [b \in Byte |-> 0],
     base |-> 0, buf |-> <<>>, buf_sz |-> 0, alpha |-> <<>>,
     ev |-> <<>>, frames |-> <<>>, last_cfg |-> <<>>, oob |-> FALSE,
     fov |-> FALSE, pass |-> NoPass]

rwstat_addch(mode, map, pack, w) ==
    LET z == [Zeroed EXCEPT !.clock = mode, !.map = map, !.pack = pack,
                            !.amode = RW_ALPHA_ENTBASE]
        r == ch_resize(z, w, "wrap")
    IN  [r EXCEPT !.status_dirty = TRUE]

(* ------------------------------- state -------------------------------- *)
VARIABLES
    chp,       \* struct rwstat_ch_priv of the one channel
    ev,        \* events the last call enqueued on the sink, in order
    frames,    \* one record per frame step the last call ran, in order
    last_cfg,  \* the configuration in force at the most recent frame step
    call,      \* the last call: its name, arguments, entry offset and results
    absorbed,  \* bytes taken by ch_data since the histogram was zeroed
    nops,      \* calls made so far
    limit,     \* calls the run may make
    crashed,   \* a stray store has brought the process down
    held       \* chp->buf and chp->alpha point to live allocations

vars == <<chp, ev, frames, last_cfg, call, absorbed, nops, limit, crashed, held>>

PrivFields ==
    {"clock", "pack", "map", "amode", "status_dirty", "pack_sz", "cmap",
     "patterns", "n_patterns", "patterns_sz", "buf_ofs", "hgram", "base",
     "buf", "buf_sz", "alpha"}

Priv(s) == [f \in PrivFields |-> s[f]]

\* the channel as a call finds it: nothing enqueued, no frame run yet
Enter ==
    chp @@ [ev |-> <<>>, frames |-> <<>>, last_cfg |-> last_cfg,
            oob |-> FALSE, fov |-> FALSE, pass |-> NoPass]

Call(name, chunk, arg, ret, step) ==
    [name |-> name, chunk |-> chunk, arg |-> arg, ofs0 |-> chp.buf_ofs,
     ret |-> ret, step |-> step]

\* A store outside a heap buffer is undefined: it either goes unnoticed (the
\* byte is lost to the channel) or brings the process down.
Fates(s) == IF s.oob THEN {"lost", "abort"} ELSE {"lost"}

\* the float-to-byte conversions a build may apply to the result r("wrap")
Convs(fov) == IF fov THEN {"wrap", "sat"} ELSE {"wrap"}

Commit(s, c, taken) ==
    /\ chp' = Priv(s)
    /\ ev' = s.ev
    /\ frames' = s.frames
    /\ last_cfg' = s.last_cfg
    /\ call' = c
    /\ absorbed' = absorbed + taken
    /\ nops' = nops + 1
    /\ crashed' = FALSE
    /\ UNCHANGED <<limit, held>>

Abort ==
    /\ crashed' = TRUE
    /\ call' = Call("abort", <<>>, 0, 0, 0)
    /\ ev' = <<>>
    /\ frames' = <<>>
    /\ nops' = nops + 1
    /\ UNCHANGED <<chp, last_cfg, absorbed, limit, held>>

Settle(s, c, taken) ==
    \E fate \in Fates(s) :
        IF fate = "abort" THEN Abort ELSE Commit(s, c, taken)

Live == ~crashed /\ held /\ nops < limit

(* ------------------------------ actions ------------------------------- *)
Data(chunk) ==
    /\ Live
    /\ LET w == ch_data(Enter, chunk, "wrap")
       IN  \E conv \in Convs(w.s.fov) :
             LET r == IF conv = "wrap" THEN w ELSE ch_data(Enter, chunk, conv)
             IN  Settle(r.s, Call("data", chunk, Len(chunk), r.ret, r.step),
                        r.ret)

Resize(base) ==
    /\ Live
    /\ LET w == ch_resize(Enter, base, "wrap")
       IN  \E conv \in Convs(w.fov) :
             Settle(IF conv = "wrap" THEN w ELSE ch_resize(Enter, base, conv),
                    Call("resize", <<>>, base, 0, 0), 0)

SwitchPacking(pack) ==
    /\ Live
    /\ LET w == ch_pack(Enter, pack, "wrap")
       IN  \E conv \in Convs(w.fov) :
             Settle(IF conv = "wrap" THEN w ELSE ch_pack(Enter, pack, conv),
                    Call("switch_packing", <<>>, pack, 0, 0), 0)

SwitchMapping(map) ==
    /\ Live
    /\ LET w == ch_map(Enter, map, "wrap")
       IN  \E conv \in Convs(w.fov) :
             Settle(IF conv = "wrap" THEN w ELSE ch_map(Enter, map, conv),
                    Call("switch_mapping", <<>>, map, 0, 0), 0)

SwitchAlpha(amode) ==
    /\ Live
    /\ Settle(ch_alpha(Enter, amode), Call("switch_alpha", <<>>, amode, 0, 0), 0)

SwitchClock(clock) ==
    /\ Live
    /\ Settle(ch_reclock(Enter, clock), Call("switch_clock", <<>>, clock, 0, 0), 0)

Tick ==
    /\ Live
    /\ LET w == ch_tick(Enter, "wrap")
       IN  \E conv \in Convs(w.fov) :
             Settle(IF conv = "wrap" THEN w ELSE ch_tick(Enter, conv),
                    Call("tick", <<>>, 0, 0, 0), 0)

AddPattern(p, ok) ==
    /\ Live
    /\ chp.n_patterns < MaxPatterns
    /\ LET r == ch_pattern(Enter, p.alpha, p.id, p.flags, p.buf, ok)
       IN  Settle(r.s, Call("add_pattern", p.buf, p.id,
                            IF r.ret THEN 1 ELSE 0, 0), 0)

ConsumeEvent(evt) ==
    /\ Live
    /\ LET w == rwstat_consume_event(Enter, evt, "wrap")
       IN  \E conv \in Convs(w.s.fov) :
             LET r == IF conv = "wrap" THEN w
                      ELSE rwstat_consume_event(Enter, evt, conv)
             IN  Settle(r.s, Call("consume_event", <<>>, evt,
                                  IF r.ret THEN 1 ELSE 0, 0), 0)

\* ch_resize when malloc returns NULL for the window, the alpha buffer or
\* both (lines 528-545): the old buffers have been freed by then, the results
\* are not tested, and the memset that follows stores through the null
\* pointer.  That store brings the process down or goes unnoticed; either way
\* the channel holds no usable buffers, and nothing it does afterwards is
\* defined, so a run ends here.
ResizeNoMem(base, failed) ==
    /\ Live
    /\ held' = FALSE
    /\ \E fate \in {"lost", "abort"} : crashed' = (fate = "abort")
    /\ chp' = [chp EXCEPT
                 !.buf_sz = base * base * chp.pack_sz,
                 !.buf = IF failed = "alpha"
                         THEN Fill(base * base * chp.pack_sz, 0) ELSE <<>>,
                 !.alpha = IF failed = "buf" THEN Fill(base * base, 255)
                           ELSE <<>>]
    /\ call' = Call("resize_nomem", <<>>, <<base, failed>>, 0, 0)
    /\ ev' = <<>>
    /\ frames' = <<>>
    /\ nops' = nops + 1
    /\ UNCHANGED <<last_cfg, absorbed, limit>>

AddPatterns(arg) ==
    /\ Live
    /\ Settle(rwstat_addpatterns(Enter, arg),
              Call("addpatterns", <<>>, arg, 0, 0), 0)

\* shent applied to a block of its own, outside any frame step
Shent(blk) ==
    /\ Live
    /\ call' = Call("shent", blk, Len(blk), shent(blk), 0)
    /\ nops' = nops + 1
    /\ UNCHANGED <<chp, ev, frames, last_cfg, absorbed, limit, crashed, held>>

\* hnorm applied to the channel's histogram, outside any frame step
Hnorm ==
    /\ Live
    /\ chp' = [chp EXCEPT !.hgram = hnorm(chp.hgram)]
    /\ call' = Call("hnorm", <<>>, 0, 0, 0)
    /\ nops' = nops + 1
    /\ UNCHANGED <<ev, frames, last_cfg, absorbed, limit, crashed, held>>

(* --------------------------- specifications --------------------------- *)
\* chunks offered to ch_data
Chunks == SeqsUpTo(Byte, MaxChunk)

\* the pattern offered to add_pattern
Pool == {[buf |-> <<1, 1>>, alpha |-> 128, id |-> 7, flags |-> {FLAG_EVENT}]}

\* the variables hold channel s, left by the call c
Holds(s, c, lim) ==
    /\ chp = Priv(s)
    /\ ev = s.ev
    /\ frames = s.frames
    /\ last_cfg = s.last_cfg
    /\ call = c
    /\ absorbed = 0
    /\ nops = 0
    /\ limit = lim
    /\ crashed = FALSE
    /\ held = TRUE

\* a channel fresh from rwstat_addch
Init ==
    \E mode \in Clocks, pack \in Packs, w \in Sides :
        Holds(rwstat_addch(mode, MAP_WRAP, pack, w),
              [name |-> "addch", chunk |-> <<>>, arg |-> w, ofs0 |-> 0,
               ret |-> 0, step |-> 0], MaxOps)

Next ==
    \/ \E chunk \in Chunks : Data(chunk)
    \/ \E base \in Sides : Resize(base)
    \/ \E pack \in Packs : SwitchPacking(pack)
    \/ \E map \in Maps : SwitchMapping(map)
    \/ \E amode \in Alphas : SwitchAlpha(amode)
    \/ \E clock \in Clocks : SwitchClock(clock)
    \/ Tick
    \/ \E p \in Pool, ok \in BOOLEAN : AddPattern(p, ok)

Spec == Init /\ [][Next]_vars

(* ---- the pattern matcher: channels started with registered patterns --- *)
\* calls per run of the pattern specifications
PtnOps == 2
\* side and longest chunk of the long-window specification
LongSide == 3
LongChunk == 9

Flags == SUBSET {FLAG_STATE, FLAG_EVENT}

PoolA == [buf : {<<1>>, <<1, 1>>, <<1, 0, 1>>}, alpha : {128}, id : {7},
          flags : Flags]

PoolB == [buf : {<<0, 1>>}, alpha : {64}, id : {9}, flags : Flags]

PtnLists == {<<p>> : p \in PoolA} \cup {<<p, q>> : p \in PoolA, q \in PoolB}

RECURSIVE Register(_, _, _)
\* add_pattern for ps[k], ps[k+1], ..
Register(s, ps, k) ==
    IF k > Len(ps) THEN s
    ELSE Register(ch_pattern(s, ps[k].alpha, ps[k].id, ps[k].flags,
                             ps[k].buf, TRUE).s, ps, k + 1)

\* the channel as a sensor leaves it after start-up: created, its patterns
\* registered, the pattern-driven alpha selected
Started(mode, pack, w, ps) ==
    LET s == ch_alpha(Register(rwstat_addch(mode, MAP_WRAP, pack, w), ps, 1),
                      RW_ALPHA_PTN)
    IN  [s EXCEPT !.ev = <<>>, !.frames = <<>>]

StartCall == [name |-> "switch_alpha", chunk |-> <<>>, arg |-> RW_ALPHA_PTN,
              ofs0 |-> 0, ret |-> 0, step |-> 0]

InitPtn ==
    \E mode \in Clocks, ps \in PtnLists :
        Holds(Started(mode, PACK_INTENS, MaxSide, ps), StartCall, PtnOps)

NextPtn ==
    \/ \E chunk \in Chunks : Data(chunk)
    \/ Tick

SpecPtn == InitPtn /\ [][NextPtn]_vars

LongChunks == SeqsUpTo(Byte, LongChunk)

InitLong ==
    \E mode \in Clocks, p \in Pool :
        Holds(Started(mode, PACK_INTENS, LongSide, <<p>>), StartCall, 1)

NextLong ==
    \/ \E chunk \in LongChunks : Data(chunk)
    \/ Tick

SpecLong == InitLong /\ [][NextLong]_vars

(* ------------- the curve table: channels of power-of-two side ---------- *)
\* sides of the curve specification are 2^0 .. 2^MaxCurveExp
MaxCurveExp == 3
\* calls per run of the curve specification
CurveOps == 2

RECURSIVE Pow2(_)
Pow2(k) == IF k = 0 THEN 1 ELSE 2 * Pow2(k - 1)

CurveSides == {Pow2(k) : k \in 0 .. MaxCurveExp}

InitCurve ==
    \E mode \in Clocks, map \in Maps, w \in CurveSides :
        Holds(rwstat_addch(mode, map, PACK_INTENS, w),
              [name |-> "addch", chunk |-> <<>>, arg |-> w, ofs0 |-> 0,
               ret |-> 0, step |-> 0], CurveOps)

NextCurve ==
    \/ \E base \in CurveSides : Resize(base)
    \/ \E map \in Maps : SwitchMapping(map)

SpecCurve == InitCurve /\ [][NextCurve]_vars

(* ---------------- the dispatcher: channels driven by events ----------- *)
\* selectors offered to the dispatcher are -1 .. MaxSelector
MaxSelector == 33
\* calls per run of the dispatcher specification
CmdOps == 2

Selectors == -1 .. MaxSelector

CmdEvents ==
    {[category |-> EVENT_TARGET, kind |-> TARGET_COMMAND_GRAPHMODE, iv |-> i] :
        i \in Selectors}
    \cup [category : {EVENT_IO},
          kind : {TARGET_COMMAND_GRAPHMODE, TARGET_COMMAND_EXIT}, iv : {1, 21}]
    \cup [category : {EVENT_TARGET}, kind : {TARGET_COMMAND_EXIT}, iv : {1, 21}]

InitCmd ==
    \E mode \in Clocks, pack \in Packs, w \in Sides :
        Holds(rwstat_addch(mode, MAP_WRAP, pack, w),
              [name |-> "addch", chunk |-> <<>>, arg |-> w, ofs0 |-> 0,
               ret |-> 0, step |-> 0], CmdOps)

NextCmd ==
    \/ \E evt \in CmdEvents : ConsumeEvent(evt)
    \/ \E chunk \in Chunks : Data(chunk)

SpecCmd == InitCmd /\ [][NextCmd]_vars

(* -------------- allocation failure: resizes that run out of memory ----- *)
\* calls per run of the allocation specification
MemOps == 2

\* which of the two allocations of ch_resize fails
Failures == {"buf", "alpha", "both"}

InitMem ==
    \E mode \in Clocks, pack \in Packs, w \in Sides :
        Holds(rwstat_addch(mode, MAP_WRAP, pack, w),
              [name |-> "addch", chunk |-> <<>>, arg |-> w, ofs0 |-> 0,
               ret |-> 0, step |-> 0], MemOps)

NextMem ==
    \/ \E chunk \in Chunks : Data(chunk)
    \/ \E base \in Sides : Resize(base)
    \/ \E base \in Sides, failed \in Failures : ResizeNoMem(base, failed)

SpecMem == InitMem /\ [][NextMem]_vars

(* -------------- pattern text: channels given argument lists ------------ *)
\* entries in one argument list, tokens in one entry
MaxEntries == 2
MaxTokens == 2
\* calls per run of the pattern-text specification
ArgOps == 1

Tokens == {<<"1">>, <<"f", "f">>, <<"z">>, <<"1", "z">>}

Entries == [val : SeqsUpTo(Tokens, MaxTokens), opt : BOOLEAN]

ArgLists == SeqsUpTo(Entries, MaxEntries)

\* channels started with no pattern or with one registered before
InitArgs ==
    \E mode \in Clocks, ps \in {<<>>} \cup {<<p>> : p \in Pool} :
        Holds(Started(mode, PACK_INTENS, MaxSide, ps), StartCall, ArgOps)

NextArgs ==
    \/ \E arg \in ArgLists : AddPatterns(arg)
    \/ \E amode \in Alphas : SwitchAlpha(amode)

SpecArgs == InitArgs /\ [][NextArgs]_vars

(* ------------------ the entropy estimate on its own -------------------- *)
\* longest block handed to shent
MaxEntLen == 8
\* calls per run of the entropy specification
EntOps == 1

EntBlocks == SeqsUpTo(Byte, MaxEntLen)

InitEnt ==
    \E mode \in Clocks :
        Holds(rwstat_addch(mode, MAP_WRAP, PACK_INTENS, 1),
              [name |-> "addch", chunk |-> <<>>, arg |-> 1, ofs0 |-> 0,
               ret |-> 0, step |-> 0], EntOps)

NextEnt == \E blk \in EntBlocks : Shent(blk)

SpecEnt == InitEnt /\ [][NextEnt]_vars

(* ---------------- histogram normalisation on its own ------------------- *)
\* buckets 0 .. NormTop, each counting up to MaxCount bytes
NormTop == 2
MaxCount == 4
\* calls per run of the normalisation specification
NormOps == 2

\* a block-mode channel whose histogram has counted the bytes of a window
\* still being filled
InitNorm ==
    \E h \in [0 .. NormTop -> 0 .. MaxCount] :
        Holds([rwstat_addch(RW_CLK_BLOCK, MAP_WRAP, PACK_HINTENS, MaxSide)
                  EXCEPT !.hgram = h],
              [name |-> "addch", chunk |-> <<>>, arg |-> MaxSide, ofs0 |-> 0,
               ret |-> 0, step |-> 0], NormOps)

NextNorm == Hnorm

SpecNorm == InitNorm /\ [][NextNorm]_vars

(* ------------- block-mode progress: a caller that keeps feeding -------- *)
\* operations a run may make before the caller settles into feeding
SetupOps == 2
\* chunks the caller then feeds: enough to fill the largest window a byte
\* at a time (side * side samples of 4 bytes under MAP_WRAP)
FeedOps == MaxSide * MaxSide * 4

\* non-empty chunks of one, two and three bytes
LiveChunks == {<<0>>, <<0, 0>>, <<0, 0, 0>>}

\* the set-up phase of a run
Preparing == nops < SetupOps

PrepData(chunk) == Preparing /\ Data(chunk)

PrepResize(base) == Preparing /\ Resize(base)

PrepPacking(pack) == Preparing /\ SwitchPacking(pack)

\* the caller's loop: one more non-empty chunk handed to a block-mode channel
Feed(chunk) ==
    /\ ~Preparing
    /\ chp.clock = RW_CLK_BLOCK
    /\ Data(chunk)

Feeding == \E chunk \in LiveChunks : Feed(chunk)

InitLive ==
    \E pack \in Packs, w \in Sides :
        Holds(rwstat_addch(RW_CLK_BLOCK, MAP_WRAP, pack, w),
              [name |-> "addch", chunk |-> <<>>, arg |-> w, ofs0 |-> 0,
               ret |-> 0, step |-> 0], SetupOps + FeedOps)

NextLive ==
    \/ \E chunk \in LiveChunks : PrepData(chunk)
    \/ \E base \in Sides : PrepResize(base)
    \/ \E pack \in Packs : PrepPacking(pack)
    \/ Feeding

\* one more call on a block-mode channel that can take a chunk; once the
\* set-up is over every call is a Feed, and a Feed is always possible on a
\* live channel, so this is the step Feeding takes seen through the call count
KeepFeeding ==
    /\ ~Preparing
    /\ chp.clock = RW_CLK_BLOCK
    /\ Live
    /\ nops' = nops + 1

\* the caller keeps ingesting: the next call is not put off forever while
\* the channel can take a chunk
SpecLive == InitLive /\ [][NextLive]_vars /\ WF_nops(KeepFeeding)

(* ------------------------------ properties ---------------------------- *)
IsData == call.name = "data"

\* the footprint table as the specification states it
StatedFootprint(pack, map) ==
    (CASE pack = PACK_TIGHT -> 4
       [] pack = PACK_TNOALPHA -> 3
       [] pack = PACK_INTENS -> 1
       [] pack = PACK_HINTENS -> 1) + (IF map = MAP_TUPLE THEN 2 ELSE 0)

\* C1: a block-mode ingest call stores the bytes it takes at the fill offset
\* it found; it builds a frame exactly when the offset it found plus the
\* count it took equals the window size, and then exactly one frame step ran
\* and the fill offset is zero; otherwise no frame step ran and the fill
\* offset has grown by the count taken.
C1_BlockIngest ==
    (IsData /\ chp.clock = RW_CLK_BLOCK) =>
        LET fills == call.ofs0 + call.ret = chp.buf_sz
        IN  /\ (call.step = 1) <=> fills
            /\ fills => (Len(frames) = 1 /\ chp.buf_ofs = 0)
            /\ ~fills => (frames = <<>> /\ chp.buf_ofs = call.ofs0 + call.ret)
            /\ \A i \in 1 .. call.ret :
                 call.ofs0 + i <= chp.buf_sz =>
                     chp.buf[call.ofs0 + i] = call.chunk[i]

\* a block-mode call that completed a partly filled window
C1_Witness ==
    /\ IsData /\ chp.clock = RW_CLK_BLOCK
    /\ call.step = 1 /\ call.ofs0 > 0 /\ call.ret > 0
    /\ \E i \in 1 .. call.ret : call.chunk[i] # 0

\* C2: a slide-mode ingest of a chunk of n < W bytes leaves the window equal
\* to the old bytes n..W-1 followed by the n new bytes, and returns n.
C2_SlideShift ==
    [][(call'.name = "data" /\ chp.clock = RW_CLK_SLIDE
          /\ Len(call'.chunk) < chp.buf_sz) =>
        (/\ chp'.buf = SubSeq(chp.buf, Len(call'.chunk) + 1, chp.buf_sz)
                          \o call'.chunk
         /\ call'.ret = Len(call'.chunk))]_vars

\* a slide-mode call with a short chunk that kept a nonzero older byte
C2_Witness ==
    /\ IsData /\ chp.clock = RW_CLK_SLIDE
    /\ call.ret > 0 /\ Len(call.chunk) < chp.buf_sz
    /\ \E k \in 1 .. chp.buf_sz - Len(call.chunk) : chp.buf[k] # 0

\* C3: in slide mode every ingest call builds a frame.
C3_SlideAlwaysFrames ==
    (IsData /\ chp.clock = RW_CLK_SLIDE) => (call.step = 1 /\ Len(frames) = 1)

\* C4: after resize, switch_mapping and switch_packing, and at the start of
\* every frame step, the raw buffer holds side * side samples of the stated
\* footprint, so its size is a multiple of side * side.
C4_BufferSize ==
    /\ call.name \in {"resize", "switch_mapping", "switch_packing"} =>
         /\ chp.buf_sz = chp.base * chp.base * StatedFootprint(chp.pack, chp.map)
         /\ chp.buf_sz % (chp.base * chp.base) = 0
         /\ Len(chp.buf) = chp.buf_sz
    /\ \A k \in 1 .. Len(frames) :
         LET f == frames[k]
         IN  /\ f.buf_sz = f.base * f.base * StatedFootprint(f.pack, f.map)
             /\ f.buf_sz % (f.base * f.base) = 0

\* a switch_packing that changed the footprint and so had to resize
C4_Witness ==
    /\ call.name = "switch_packing"
    /\ Len(frames) > 0
    /\ chp.buf_ofs > 0

\* C5: the histogram buckets never sum to more than the bytes absorbed.
C5_HgramWithinAbsorbed == SumTo(chp.hgram, MaxByte) <= absorbed


\* C10: a frame step emits the stream-info notification only when the
\* configuration differs from the one in force at the previous frame step.
C10_InfoOnlyOnChange ==
    call.name # "addch" =>
        \A k \in 1 .. Len(frames) :
            frames[k].info => frames[k].cfg # frames[k].prev_cfg

(* --------------------- properties of the pattern pass ------------------ *)
\* the frames of the last call in which the pattern loop ran
PtnFrames == {k \in 1 .. Len(frames) : frames[k].pass.ran}

\* C6: a completed match of a pattern of length L at position p resets the
\* pattern's progress and sets alpha[p-L+1 .. p] to the pattern's opacity,
\* leaving every other alpha cell as it was.
C6_MatchPaintsSpan ==
    \A k \in PtnFrames :
        \A n \in 1 .. Len(frames[k].pass.matches) :
            LET m == frames[k].pass.matches[n]
                q == frames[k].patterns[m.ptn]
            IN  /\ m.pos = 0
                /\ \A c \in 0 .. Len(m.after) - 1 :
                     m.after[c + 1] =
                        IF m.at - q.buf_sz + 1 <= c /\ c <= m.at
                        THEN q.alpha ELSE m.before[c + 1]

\* C7: a match completes at position p only if the window bytes at
\* p-L+1 .. p are the pattern's bytes, contiguously and in order.
C7_MatchIsContiguous ==
    \A k \in PtnFrames :
        \A n \in 1 .. Len(frames[k].pass.matches) :
            LET m == frames[k].pass.matches[n]
                q == frames[k].patterns[m.ptn]
            IN  /\ m.at - q.buf_sz + 1 >= 0
                /\ SubSeq(frames[k].buf, m.at - q.buf_sz + 2, m.at + 1) = q.buf

\* the window positions at which pat occurs contiguously
Occurrences(buf, pat) ==
    {c \in 0 .. Len(buf) - Len(pat) : SubSeq(buf, c + 1, c + Len(pat)) = pat}

\* C8: one pattern flagged emit-event, a window holding it at exactly two
\* positions that do not overlap: the pass emits one notification, count 2.
C8_TwoOccurrencesCountTwo ==
    \A k \in PtnFrames :
        LET f   == frames[k]
            occ == Occurrences(f.buf, f.patterns[1].buf)
        IN  (/\ Len(f.patterns) = 1
             /\ FLAG_EVENT \in f.patterns[1].flags
             /\ Cardinality(occ) = 2
             /\ \A a, b \in occ : a < b => a + f.patterns[1].buf_sz <= b)
            => f.pass.notes =
                  <<[kind |-> "CURSORINPUT", id |-> f.patterns[1].id, x |-> 2]>>

\* matches pattern j completed in frame f
MatchCount(f, j) ==
    Cardinality({n \in 1 .. Len(f.pass.matches) : f.pass.matches[n].ptn = j})

RECURSIVE StatedNotes(_, _)
\* the notifications the pass owes for patterns j, j+1, ..
StatedNotes(f, j) ==
    IF j > Len(f.patterns) THEN <<>>
    ELSE (IF FLAG_EVENT \in f.patterns[j].flags /\ MatchCount(f, j) > 0
          THEN <<[kind |-> "CURSORINPUT", id |-> f.patterns[j].id,
                  x |-> MatchCount(f, j)]>>
          ELSE <<>>) \o StatedNotes(f, j + 1)

IsNote(e) == e.kind = "CURSORINPUT"

\* C9: a pass emits, in pattern order, one notification for each pattern
\* flagged emit-event that completed a match in this pass, with the pattern's
\* identifier and the number of matches of this pass, and no other; after
\* the pass every pattern's counter is zero.
C9_OneNotePerPattern ==
    /\ \A k \in PtnFrames :
         /\ frames[k].pass.notes = StatedNotes(frames[k], 1)
         /\ \A j \in 1 .. Len(frames[k].after) : frames[k].after[j].evc = 0
    /\ (Len(frames) = 1 /\ PtnFrames # {}) =>
         SelectSeq(ev, IsNote) = StatedNotes(frames[1], 1)
    /\ \A j \in 1 .. chp.n_patterns : chp.patterns[j].evc = 0

\* after the second call: a pattern flagged emit-event matched twice in a
\* pass, another one not flagged matched too, one notification went out
C9_Witness ==
    /\ nops = 2
    /\ \E k \in PtnFrames :
         LET f == frames[k]
         IN  /\ Len(f.patterns) = 2
             /\ \E j \in 1 .. 2 :
                  /\ FLAG_EVENT \in f.patterns[j].flags
                  /\ MatchCount(f, j) >= 2
                  /\ FLAG_EVENT \notin f.patterns[3 - j].flags
                  /\ MatchCount(f, 3 - j) >= 1
             /\ Len(f.pass.notes) = 1

(* ----------------------- properties of the curve table ----------------- *)
IsPow2(n) == \E k \in 0 .. 16 : n = Pow2(k)

\* C11: with the curve mapping active and a side that is a power of two, the
\* table holds side * side coordinate pairs and every coordinate (x, y) with
\* 0 <= x, y < side is the entry of exactly one offset.
C11_CurveBijection ==
    (~crashed /\ chp.map = MAP_HILBERT /\ IsPow2(chp.base)) =>
        /\ Len(chp.cmap) = 2 * chp.base * chp.base
        /\ \A x, y \in 0 .. chp.base - 1 :
             Cardinality({i \in 0 .. chp.base * chp.base - 1 :
                            chp.cmap[2 * i + 1] = x /\ chp.cmap[2 * i + 2] = y}) = 1

\* a resize to side 4 or more rebuilt the curve table
C11_Witness ==
    /\ call.name = "resize"
    /\ chp.map = MAP_HILBERT
    /\ chp.base >= 4
    /\ chp.cmap[2 * 3 + 1] # chp.cmap[2 * 3 + 2]

(* ------------------------ properties of the dispatcher ----------------- *)
\* the field a recognised selector sets, and the value it sets it to
StatedSelector(iv) ==
    CASE iv = 0  -> <<"clock", RW_CLK_BLOCK>>
      [] iv = 1  -> <<"clock", RW_CLK_SLIDE>>
      [] iv = 10 -> <<"map", MAP_WRAP>>
      [] iv = 11 -> <<"map", MAP_TUPLE>>
      [] iv = 12 -> <<"map", MAP_HILBERT>>
      [] iv = 20 -> <<"pack", PACK_INTENS>>
      [] iv = 21 -> <<"pack", PACK_HINTENS>>
      [] iv = 22 -> <<"pack", PACK_TIGHT>>
      [] iv = 23 -> <<"pack", PACK_TNOALPHA>>
      [] iv = 30 -> <<"amode", RW_ALPHA_FULL>>
      [] iv = 31 -> <<"amode", RW_ALPHA_PTN>>
      [] iv = 32 -> <<"amode", RW_ALPHA_ENTBASE>>
      [] OTHER   -> <<>>

\* C12: a graph-mode command with a recognised selector succeeds and sets the
\* selected mode, leaving the other three modes alone; any other selector and
\* any other event fails, changes no field of the channel and emits nothing.
C12_Dispatch ==
    [][call'.name = "consume_event" =>
        LET evt == call'.arg
            sel == IF evt.category = EVENT_TARGET
                      /\ evt.kind = TARGET_COMMAND_GRAPHMODE
                   THEN StatedSelector(evt.iv) ELSE <<>>
        IN  IF sel # <<>>
            THEN /\ call'.ret = 1
                 /\ chp'[sel[1]] = sel[2]
                 /\ \A f \in {"clock", "map", "pack", "amode"} \ {sel[1]} :
                      chp'[f] = chp[f]
            ELSE /\ call'.ret = 0
                 /\ chp' = chp
                 /\ ev' = <<>>
                 /\ frames' = <<>>]_vars

\* a graph-mode command with an unknown selector was refused by a channel
\* holding a partly filled window
C12_Witness ==
    /\ call.name = "consume_event"
    /\ call.arg.category = EVENT_TARGET
    /\ call.arg.kind = TARGET_COMMAND_GRAPHMODE
    /\ call.arg.iv = 13
    /\ call.ret = 0
    /\ chp.buf_ofs > 0

(* ------------------------ properties of allocation --------------------- *)
\* C13: a resize whose allocation failed leaves the channel holding its
\* previous, valid window and alpha buffers, and the process running.
C13_ReplaceThenFree ==
    call.name = "resize_nomem" => (held /\ ~crashed)

(* ----------------------- properties of pattern text -------------------- *)
\* a token with a character that is not a hexadecimal digit
Malformed(tok) == \E k \in 1 .. Len(tok) : HexDigit(tok[k]) < 0

\* C14: the patterns a call of rwstat_addpatterns registers come from
\* entries without a malformed token only (a pattern's id is the index of
\* its entry), and the patterns registered before the call stay as they were.
C14_MalformedNotRegistered ==
    [][call'.name = "addpatterns" =>
        /\ chp'.n_patterns >= chp.n_patterns
        /\ SubSeq(chp'.patterns, 1, chp.n_patterns) = chp.patterns
        /\ \A j \in chp.n_patterns + 1 .. chp'.n_patterns :
             LET entry == call'.arg[chp'.patterns[j].id + 1]
             IN  \A k \in 1 .. Len(entry.val) : ~Malformed(entry.val[k])]_vars

(* ------------------------ properties of the entropy -------------------- *)
\* the byte values occurring in blk
Symbols(blk) == {blk[k] : k \in DOMAIN blk}

\* C15: the entropy, in units of 1/4096 bit, is 0 for a block of one
\* repeated byte value, is log2(m) (to within 1/256 bit) for a block in which
\* m distinct values occur equally often, and always lies in 0 .. 8 bits.
C15_EntropyValues ==
    call.name = "shent" =>
        LET blk == call.chunk
            m   == Cardinality(Symbols(blk))
        IN  /\ m = 1 => call.ret = 0
            /\ (m >= 1 /\ \A b \in Symbols(blk) : Count(blk, b) * m = Len(blk))
                 => (call.ret - LOG2[m] <= 16 /\ LOG2[m] - call.ret <= 16)
            /\ 0 <= call.ret /\ call.ret <= 8 * 4096

(* --------------------- properties of the normalisation ----------------- *)
\* C16: normalisation keeps the order of the buckets (a <= b before gives
\* a <= b after), and applied to a histogram that was just normalised it
\* leaves every bucket unchanged.
C16_NormOrderIdempotent ==
    [][call'.name = "hnorm" =>
        /\ \A a, b \in DOMAIN chp.hgram :
             chp.hgram[a] <= chp.hgram[b] => chp'.hgram[a] <= chp'.hgram[b]
        /\ call.name = "hnorm" => chp'.hgram = chp.hgram]_vars

(* ------------------- properties of the slide-mode histogram ------------ *)
\* C17: in a frame step run in slide mode the histogram, as rebuilt and
\* before any normalisation, counts for every byte value its occurrences in
\* the window of that frame.
C17_SlideHgramIsWindow ==
    call.name # "addch" =>
        \A k \in 1 .. Len(frames) :
            frames[k].clock = RW_CLK_SLIDE =>
                \A b \in Byte : frames[k].hgram[b] = Count(frames[k].buf, b)

(* --------------------- properties of the default opacity --------------- *)
\* the matches of frame f, completed before position c, of patterns flagged
\* persist-as-default-opacity
Persisted(f, c) ==
    {n \in 1 .. Len(f.pass.matches) :
        /\ f.pass.matches[n].at < c
        /\ FLAG_STATE \in f.patterns[f.pass.matches[n].ptn].flags}

\* the default opacity in force when position c of frame f is scanned
StatedDefault(f, c) ==
    IF Persisted(f, c) = {} THEN 255
    ELSE LET last == CHOOSE n \in Persisted(f, c) :
                         \A o \in Persisted(f, c) : o <= n
         IN  f.patterns[f.pass.matches[last].ptn].alpha

\* position c of frame f lies in the span of one of the frame's matches
Covered(f, c) ==
    \E n \in 1 .. Len(f.pass.matches) :
        LET m == f.pass.matches[n]
        IN  m.at - f.patterns[m.ptn].buf_sz + 1 <= c /\ c <= m.at

\* C18: after a pattern pass every position outside the spans of the pass's
\* matches holds the default opacity in force when it was scanned: 0xff
\* until a pattern flagged persist-as-default-opacity completes a match, and
\* from then on the opacity of the last such pattern.
C18_DefaultOpacity ==
    \A k \in PtnFrames :
        \A c \in 0 .. Len(frames[k].alpha) - 1 :
            ~Covered(frames[k], c) =>
                frames[k].alpha[c + 1] = StatedDefault(frames[k], c)

(* ----------------------- properties of the fill offset ----------------- *)
\* C19: between operations the fill offset is below the window size, so the
\* remaining capacity lies in 1 .. buf_sz, and the bytes an ingest call took
\* were stored inside the window.
C19_FillOffsetInBuffer ==
    ~crashed =>
        /\ chp.buf_ofs < chp.buf_sz
        /\ ~ch_left(chp).wrapped
        /\ ch_left(chp).n \in 1 .. chp.buf_sz
        /\ (IsData /\ chp.clock = RW_CLK_BLOCK) =>
              call.ofs0 + call.ret <= chp.buf_sz

(* ----------------------- properties of the alpha writes ---------------- *)
\* C20: no frame step writes an alpha cell outside 0 .. side * side - 1, and
\* the alpha buffer always has side * side cells.
C20_AlphaWritesInRange ==
    /\ ~crashed => Len(chp.alpha) = chp.base * chp.base
    /\ \A k \in 1 .. Len(frames) : ~frames[k].pass.stray

(* -------------------- properties of block-mode progress ---------------- *)
\* an ingest call of the feeding phase built a frame
Framed == IsData /\ call.step = 1 /\ nops > SetupOps

\* the run has used up its chunks while stores beyond the window went
\* unnoticed: whether a frame would follow lies outside the run
Overrun == ~crashed /\ nops = limit /\ chp.buf_ofs > chp.buf_sz

\* C21: once a block-mode channel is fed non-empty chunks, whatever resizes
\* and packing switches came before, an ingest call eventually builds a frame
\* (as far as a run of SetupOps + FeedOps calls can tell).
C21_BlockFeedFrames ==
    [](( /\ nops = SetupOps
         /\ chp.clock = RW_CLK_BLOCK
         /\ ~crashed
         /\ held ) => <>(Framed \/ Overrun))

=============================================================================
